---------------------------- MODULE Spec2Model ----------------------------
(***************************************************************************)
(* Model of libgeosuitesnd/__init__.py: the GeoSuite SND parser.           *)
(*                                                                         *)
(* A file is the list `data` of stripped lines that load() hands to the    *)
(* parser; a line is modelled as the sequence of its tokens, separated by  *)
(* single spaces.  Numbers are fixed-point integers, value * 100000, so    *)
(* that the 0.0001 tolerance of the block check is 10.  Python's None is   *)
(* the empty tuple <<>> and a value v that may be None is <<v>>.  Indices  *)
(* (asterisk, asterisk_line_idx, line_start, ...) keep Python's 0-based    *)
(* values; At and Slice translate them to TLA+'s 1-based sequences.        *)
(* numpy is taken to be a release that still has np.int (line 101).        *)
(***************************************************************************)
EXTENDS Integers, Sequences, FiniteSets, TLC

VARIABLES data, pc, exc, x, y, z, asterisk_lines, asterisk_line_idx, res, accepted

vars == <<data, pc, exc, x, y, z, asterisk_lines, asterisk_line_idx, res, accepted>>

None == <<>>

Some(v) == <<v>>

\* Python's seq[i], i counted from 0.
At(seq, i) == seq[i + 1]

\* Python's seq[a:b] for 0 <= a, 0 <= b.
Slice(seq, a, b) ==
    LET hi == IF b < Len(seq) THEN b ELSE Len(seq)
    IN  IF a >= hi THEN <<>> ELSE SubSeq(seq, a + 1, hi)

\* Python's `tok in string`.
Contains(string, tok) == \E i \in 1..Len(string) : string[i] = tok

\* Python's list.remove(tok): drops the first occurrence only.
Remove(string, tok) ==
    LET first == CHOOSE i \in 1..Len(string) :
                     string[i] = tok /\ \A j \in 1..(i - 1) : string[j] # tok
    IN  SubSeq(string, 1, first - 1) \o SubSeq(string, first + 1, Len(string))

\* Python's ' '.join(string).
RECURSIVE Join(_)
Join(string) ==
    IF string = <<>> THEN ""
    ELSE IF Len(string) = 1 THEN string[1]
    ELSE string[1] \o " " \o Join(Tail(string))

(***************************************************************************)
(* int() and float() on the tokens the model's files are written with.     *)
(***************************************************************************)
IntTable ==
    "0" :> 0 @@ "1" :> 1 @@ "2" :> 2 @@ "5" :> 5 @@ "7" :> 7 @@ "22" :> 22 @@
    "23" :> 23 @@ "25" :> 25 @@ "26" :> 26 @@ "43" :> 43 @@ "50" :> 50 @@
    "74" :> 74 @@ "93" :> 93 @@ "99" :> 99 @@ "2020" :> 2020 @@
    "-1000" :> (0 - 1000)

DecimalTable ==
    "0.0" :> 0 @@ "0.2" :> 20000 @@ "0.4" :> 40000 @@ "0.6" :> 60000 @@
    "0.8" :> 80000 @@ "1.0" :> 100000 @@ "0.9998" :> 99980 @@
    "1.00005" :> 100005 @@ "1.0002" :> 100020 @@ "3.0" :> 300000 @@
    "10.5" :> 1050000 @@ "20.25" :> 2025000

IsInt(tok) == tok \in DOMAIN IntTable

IntOf(tok) == IntTable[tok]

IsFloat(tok) == tok \in DOMAIN IntTable \/ tok \in DOMAIN DecimalTable

FloatOf(tok) ==
    IF tok \in DOMAIN IntTable THEN IntTable[tok] * 100000 ELSE DecimalTable[tok]

\* str.split('.') on the tokens that hold a '.'.
SplitDot(tok) ==
    CASE tok = "1.2.2020" -> <<"1", "2", "2020">>
      [] tok = "1.2" -> <<"1", "2">>
      [] tok = "0.2" -> <<"0", "2">>
      [] tok = "1.0" -> <<"1", "0">>
      [] OTHER -> <<tok>>

\* line.split(' ') of a stripped line: the empty line gives [''].
SplitSpace(line) == IF line = <<>> THEN <<"">> ELSE line

(***************************************************************************)
(* The code tables.                                                        *)
(***************************************************************************)
snd_columns_by_method ==
    7 :> <<"depth", "feed_trust_force", "pore_pressure", "friction",
           "pressure", "resistivity">> @@
    25 :> <<"depth", "feed_trust_force", "interval", "pumping_rate">> @@
    26 :> <<"depth", "feed_trust_force", "interval", "pumping_rate">> @@
    23 :> <<"depth", "feed_trust_force">>

method_by_code ==
    22 :> "simple" @@ 21 :> "rotary" @@ 23 :> "rps" @@ 25 :> "total" @@
    7 :> "cpt" @@ 26 :> "rock_drilling"

stop_reason_by_code ==
    90 :> "drilling_abandoned_prematurely" @@ 91 :> "abandoned_hit_hard_surface" @@
    92 :> "assumed_hit_boulder" @@ 93 :> "assumed_bedrock" @@
    94 :> "reached_bedrock" @@ 95 :> "broken_drill" @@ 96 :> "other_fault" @@
    97 :> "drilling_abandoned"


(***************************************************************************)
(* parse_coordinates_asterisk_lines.  float() is applied to the whole      *)
(* line: a line parses only if it is one float token.                      *)
(***************************************************************************)
LineIsFloat(line) == Len(line) = 1 /\ IsFloat(line[1])

Marker == <<"*">>

parse_coordinates_asterisk_lines(d) ==
    IF Len(d) < 3 THEN [raised |-> TRUE, exc |-> "IndexError"]
    ELSE IF \E i \in 0..2 : ~LineIsFloat(At(d, i))
    THEN [raised |-> TRUE, exc |-> "ValueError"]
    ELSE [raised |-> FALSE,
          y |-> FloatOf(At(d, 0)[1]),
          x |-> FloatOf(At(d, 1)[1]),
          z |-> FloatOf(At(d, 2)[1]),
          asterisk_lines |->
              SelectSeq([i \in 1..Len(d) |-> i - 1], LAMBDA i : At(d, i) = Marker)]

(***************************************************************************)
(* The block check of parse(): float(data[asterisk + 2].split(' ')[0]) - 1 *)
(* < 0.0001, every exception meaning `continue`.                           *)
(***************************************************************************)
Tolerance == 10

BlockAccepted(d, asterisk) ==
    /\ asterisk + 2 < Len(d)
    /\ LET tok == SplitSpace(At(d, asterisk + 2))[1]
       IN  IsFloat(tok) /\ FloatOf(tok) - 100000 < Tolerance

(***************************************************************************)
(* parse_header_information.  When int(header00[0]) fails, method_code is  *)
(* never bound: the lookup's exception is caught, the return statement's   *)
(* is not.                                                                 *)
(***************************************************************************)
parse_header_information(d, asterisk) ==
    LET header00 == At(d, asterisk + 1)
        code_ok == Len(header00) >= 1 /\ IsInt(header00[1])
        method_code == IntOf(header00[1])
        date_components == SplitDot(header00[2])
        date_ok == /\ Len(header00) >= 2
                   /\ Len(date_components) >= 3
                   /\ \A i \in 1..3 : IsInt(date_components[i])
        day == IntOf(date_components[1])
        month == IntOf(date_components[2])
        year == IntOf(date_components[3])
        line2 == At(d, asterisk + 2)
        stop_ok == /\ asterisk + 2 < Len(d)
                   /\ Len(line2) >= 2
                   /\ IsInt(line2[2])
        stop_code == IntOf(line2[2])
    IN  IF ~code_ok THEN [raised |-> TRUE, exc |-> "UnboundLocalError"]
        ELSE [raised |-> FALSE,
              method_code |-> Some(method_code),
              method_name |-> IF method_code \in DOMAIN method_by_code
                              THEN Some(method_by_code[method_code]) ELSE None,
              day |-> IF date_ok THEN Some(day) ELSE None,
              month |-> IF date_ok THEN Some(month) ELSE None,
              year |-> IF date_ok THEN Some(year) ELSE None,
              date |-> IF date_ok
                       THEN Some(ToString(year) \o "-" \o ToString(month)
                                 \o "-" \o ToString(day))
                       ELSE None,
              stop_code |-> IF stop_ok THEN Some(stop_code) ELSE None,
              stop_desc |-> IF stop_ok /\ stop_code \in DOMAIN stop_reason_by_code
                            THEN Some(stop_reason_by_code[stop_code]) ELSE None]

(***************************************************************************)
(* parse_string_data_column: the per-row scan of the tail tokens.          *)
(***************************************************************************)
FlagStates == {"flushing_state", "okt_rotasjon_state", "ramming_state", "pumping_state"}

\* if on in string: <flags> = 1; string.remove(on)
\* elif off in string: <flags> = 0; string.remove(off)
Toggle(st, on, off, flags) ==
    IF Contains(st.string, on)
    THEN [state |-> [f \in FlagStates |-> IF f \in flags THEN 1 ELSE st.state[f]],
          depth_bedrock |-> st.depth_bedrock,
          string |-> Remove(st.string, on)]
    ELSE IF Contains(st.string, off)
    THEN [state |-> [f \in FlagStates |-> IF f \in flags THEN 0 ELSE st.state[f]],
          depth_bedrock |-> st.depth_bedrock,
          string |-> Remove(st.string, off)]
    ELSE st

\* Bedrock without the `is None` test: every occurrence overwrites the depth.
BedrockOverwrites(st, tok, depth) ==
    IF Contains(st.string, tok)
    THEN [state |-> st.state,
          depth_bedrock |-> Some(depth),
          string |-> Remove(st.string, tok)]
    ELSE st

\* if tok in string: if depth_bedrock is None: depth_bedrock = depth; string.remove(tok)
Bedrock(st, tok, depth) ==
    IF Contains(st.string, tok)
    THEN [state |-> st.state,
          depth_bedrock |-> IF st.depth_bedrock = None THEN Some(depth)
                            ELSE st.depth_bedrock,
          string |-> Remove(st.string, tok)]
    ELSE st

\* TLC evaluates an operator's arguments when they are first used; a test on
\* Evaluated(v) computes v at that point, which keeps the evaluation shallow.
Evaluated(v) == v = v

\* Lines 114-155: the letter version of the codes.
LetterCodes(st, depth) ==
    Bedrock(
        Toggle(
            Toggle(
                Toggle(
                    Toggle(
                        Toggle(st, "R1", "R2", {"okt_rotasjon_state"}),
                        "y1", "y2", {"flushing_state"}),
                    "S1", "S2", {"ramming_state"}),
                "D1", "D2", {"ramming_state", "flushing_state"}),
            "P1", "P2", {"pumping_state"}),
        "F", depth)

\* Lines 157-198: the number version of the codes, run on the state the
\* letter codes left.
NumberCodes(st, depth) ==
    IF Evaluated(st)
    THEN Bedrock(
             Toggle(
                 Toggle(
                     Toggle(
                         Toggle(
                             Toggle(st, "70", "71", {"okt_rotasjon_state"}),
                             "72", "73", {"flushing_state"}),
                         "74", "75", {"ramming_state"}),
                     "76", "77", {"ramming_state", "flushing_state"}),
                 "78", "79", {"pumping_state"}),
             "43", depth)
    ELSE st

\* One pass of the loop body, lines 114-198, in the order of the code.
ScanRow(st, depth) == NumberCodes(LetterCodes(st, depth), depth)

\* The for loop over string_data: `out` collects, per row, what lines 200-204 store.
RECURSIVE ScanRows(_, _, _, _, _)

\* Lines 200-204, with s the state the row's scan left, and the next iteration.
StoreRow(string_data, depths, count, s, out) ==
    IF Evaluated(s)
    THEN ScanRows(string_data, depths, count + 1, s,
                  Append(out, [flushing |-> s.state["flushing_state"],
                               extra_spin |-> s.state["okt_rotasjon_state"],
                               ramming |-> s.state["ramming_state"],
                               pumping |-> s.state["pumping_state"],
                               comments |-> Join(s.string)]))
    ELSE [st |-> s, out |-> out]

ScanRows(string_data, depths, count, st, out) ==
    IF count > Len(string_data) THEN [st |-> st, out |-> out]
    ELSE StoreRow(string_data, depths, count,
                  ScanRow([st EXCEPT !.string = string_data[count]], depths[count]),
                  out)

HasColumn(df, name) == \E i \in 1..Len(df) : df[i].name = name

Column(df, name) == df[CHOOSE i \in 1..Len(df) : df[i].name = name].vals

\* Lines 206-212: the five columns are added from what the loop stored.
AddFlagColumns(df_data, r) ==
    LET col(f) == [i \in 1..Len(r.out) |-> r.out[i][f]]
    IN  [df_data |-> df_data \o
                     <<[name |-> "flushing", vals |-> col("flushing")],
                       [name |-> "extra_spin", vals |-> col("extra_spin")],
                       [name |-> "ramming", vals |-> col("ramming")],
                       [name |-> "pumping", vals |-> col("pumping")],
                       [name |-> "comments", vals |-> col("comments")]>>,
         depth_bedrock |-> r.st.depth_bedrock]

parse_string_data_column(df_data, raw_data_nestedlist, n_data_col) ==
    AddFlagColumns(
        df_data,
        ScanRows([i \in 1..Len(raw_data_nestedlist) |->
                     Slice(raw_data_nestedlist[i], n_data_col,
                           Len(raw_data_nestedlist[i]))],
                 Column(df_data, "depth"), 1,
                 [state |-> [f \in FlagStates |-> 0],
                  depth_bedrock |-> None,
                  string |-> <<>>],
                 <<>>))

(***************************************************************************)
(* parse_borehole_data.  Everything after line 221 runs inside one try:    *)
(* an exception leaves df_data with the columns added so far.              *)
(***************************************************************************)
\* FlagMethods with the scan run for every method that has a column layout.
FlagMethodsEveryLayout == {7, 23, 25, 26}

\* Line 237: if method_code in [23, 25].
FlagMethods == {23, 25}

MinLen(rows) ==
    CHOOSE m \in {Len(rows[i]) : i \in 1..Len(rows)} :
        \A i \in 1..Len(rows) : m <= Len(rows[i])

\* The name line 230 or 232 gives column i (counted from 0).
ColumnName(code, i) ==
    LET column_names == snd_columns_by_method[code]
    IN  IF i < Len(column_names) THEN At(column_names, i)
        ELSE method_by_code[code] \o "_Col" \o ToString(i)

\* The columns the loop of lines 227-232 adds before float() first fails.
RECURSIVE AddColumns(_, _, _, _, _)
AddColumns(raw, code, n, i, df) ==
    IF i >= n THEN [df_data |-> df, failed |-> FALSE]
    ELSE IF \E r \in 1..Len(raw) : ~IsFloat(At(raw[r], i))
    THEN [df_data |-> df, failed |-> TRUE]
    ELSE AddColumns(raw, code, n, i + 1,
                    Append(df, [name |-> ColumnName(code, i),
                                vals |-> [r \in 1..Len(raw) |-> FloatOf(At(raw[r], i))]]))

\* The except branch of lines 241-243: df_data as it stands, nothing else.
NoDataExtracted(df) ==
    [df_data |-> df, depth_increment |-> None, depth_bedrock |-> None]

\* Line 235: df_data.depth[1] - df_data.depth[0].
DepthIncrement(df) == Column(df, "depth")[2] - Column(df, "depth")[1]

\* Line 243 after the flag scan of line 238.
Scanned(scanned, df) ==
    [df_data |-> scanned.df_data,
     depth_increment |-> Some(DepthIncrement(df)),
     depth_bedrock |-> scanned.depth_bedrock]

\* Lines 235-243, with cols what the column loop left.
AfterColumns(cols, raw, code, n) ==
    IF cols.failed THEN NoDataExtracted(cols.df_data)
    ELSE IF ~HasColumn(cols.df_data, "depth") THEN NoDataExtracted(cols.df_data)
    ELSE IF Len(Column(cols.df_data, "depth")) < 2 THEN NoDataExtracted(cols.df_data)
    ELSE IF code \in FlagMethods
    THEN Scanned(parse_string_data_column(cols.df_data, raw, n), cols.df_data)
    ELSE [df_data |-> cols.df_data,
          depth_increment |-> Some(DepthIncrement(cols.df_data)),
          depth_bedrock |-> None]

\* Lines 223-243, with raw the split lines of the block.
DecodeBlock(raw, code) ==
    IF raw = <<>> THEN NoDataExtracted(<<>>)
    ELSE IF code \notin DOMAIN snd_columns_by_method THEN NoDataExtracted(<<>>)
    ELSE AfterColumns(AddColumns(raw, code, MinLen(raw), 0, <<>>), raw, code, MinLen(raw))

\* Lines 219-243, for asterisk_line_idx + 1 < len(asterisk_lines).
parse_borehole_data(d, method_code, lines, idx) ==
    DecodeBlock(Slice(d, At(lines, idx) + 3, At(lines, idx + 1)), method_code)

\* Line 218, outside the try: asterisk_lines[asterisk_line_idx + 1].
LineEndMissing(lines, idx) == idx + 1 >= Len(lines)

(***************************************************************************)
(* The input files.  A file is three coordinate lines followed by blocks;  *)
(* a block is a marker line, two header lines and data rows.  The files    *)
(* are of three families: block lists of up to MaxMarkers blocks in which  *)
(* at most one block departs from the two core blocks (in its header, its  *)
(* check line or its rows); one block whose rows carry tails of up to      *)
(* MaxTail tokens, followed by the closing marker; and files whose         *)
(* coordinate lines do not parse.                                          *)
(***************************************************************************)
MaxMarkers == 4

MaxRows == 3

MaxTail == 2

TailTokens == {"S1", "S2", "74", "F", "43", "x"}

Coordinates == << <<"10.5">>, <<"20.25">>, <<"3.0">> >>

GoodHeader == <<"25", "1.2.2020">>

GoodCheck == <<"1", "93">>

DepthTok(i) ==
    CASE i = 1 -> "0.0" [] i = 2 -> "0.2" [] i = 3 -> "0.4" [] i = 4 -> "0.6"
      [] OTHER -> "0.8"

\* Rows of two numeric tokens (depth, force) and the given tails.
Rows(tails) == [i \in 1..Len(tails) |-> <<DepthTok(i), "5">> \o tails[i]]

Block(header, check, rows) == <<Marker, header, check>> \o rows

GoodRows == Rows(<< <<>>, <<"S1", "F">>, <<>> >>)

Terminator == <<Marker>>

GoodBlock == Block(GoodHeader, GoodCheck, GoodRows)

CoreBlocks == {Terminator, GoodBlock}

HeaderVariants ==
    {<<"23", "1.2.2020">>, <<"7", "1.2.2020">>, <<"26", "1.2.2020">>,
     <<"22", "1.2.2020">>, <<"99", "1.2.2020">>, <<"abc", "1.2.2020">>,
     <<>>, <<"25">>, <<"25", "1.2">>, <<"25", "x">>}

CheckVariants ==
    {<<"1.00005", "93">>, <<"1.0002", "93">>, <<"0.9998", "93">>, <<"2", "93">>,
     <<"0", "93">>, <<"-1000", "93">>, <<"x", "93">>, <<>>, <<"1">>,
     <<"1", "50">>, <<"1", "x">>, <<"1.0">>}

RowVariants ==
    {<< <<"0.0", "5">>, <<"0.2", "abc">> >>,
     << <<"abc", "5">>, <<"0.2", "5">> >>,
     << <<"0.0", "5">>, <<>>, <<"0.4", "5", "F">> >>,
     << <<"0.0", "5", "74">>, <<"0.2", "5", "74">> >>,
     << <<"0.0">>, <<"0.2", "5", "F">> >>,
     << <<"0.0", "5", "F">> >>,
     <<>>}

VariantBlocks ==
    {Block(h, GoodCheck, GoodRows) : h \in HeaderVariants}
    \cup {Block(GoodHeader, c, GoodRows) : c \in CheckVariants}
    \cup {Block(GoodHeader, GoodCheck, r) : r \in RowVariants}
    \cup {Block(<<"23", "1.2.2020">>, GoodCheck, r) : r \in RowVariants}
    \cup {<<Marker, GoodHeader>>}

BlockLists ==
    UNION {[1..k -> CoreBlocks]
           \cup {[c EXCEPT ![i] = v] :
                     c \in [1..k -> CoreBlocks], i \in 1..k, v \in VariantBlocks} :
           k \in 0..MaxMarkers}

RECURSIVE Flatten(_)
Flatten(blocks) ==
    IF blocks = <<>> THEN <<>> ELSE Head(blocks) \o Flatten(Tail(blocks))

StructureFiles == {Coordinates \o Flatten(b) : b \in BlockLists}

Tails == UNION {[1..m -> TailTokens] : m \in 0..MaxTail}

SmallTails == {<<>>, <<"F">>, <<"S2", "D1">>}

InsertAt(seq, i, v) == SubSeq(seq, 1, i - 1) \o <<v>> \o SubSeq(seq, i, Len(seq))

\* Lists of up to MaxRows tails, one of them any tail, the others small ones.
TailLists ==
    {<<>>} \cup
    UNION {{InsertAt(s, i, t) :
                s \in [1..(L - 1) -> SmallTails], i \in 1..L, t \in Tails} :
           L \in 1..MaxRows}

ContentFiles ==
    {Coordinates \o Block(<<m, "1.2.2020">>, GoodCheck, Rows(tl)) \o Terminator :
         m \in {"25", "7"}, tl \in TailLists}

BadCoordinateFiles ==
    {<< <<"abc">>, <<"20.25">>, <<"3.0">> >> \o GoodBlock \o Terminator,
     << <<"10.5">>, <<"20.25", "3.0">>, <<"3.0">> >> \o Terminator,
     << <<"10.5">>, <<"20.25">> >>}

Files == StructureFiles \cup ContentFiles \cup BadCoordinateFiles

(***************************************************************************)
(* parse(), from the lines load() returns.  One action per step of its     *)
(* control flow: the coordinate scan, one loop iteration per marker (a     *)
(* rejected block, an appended record, or an exception that leaves the     *)
(* function), and the return.  `accepted` logs the markers that passed the *)
(* block check.                                                            *)
(***************************************************************************)
Init ==
    /\ data \in Files
    /\ pc = "start"
    /\ exc = None
    /\ x = None
    /\ y = None
    /\ z = None
    /\ asterisk_lines = <<>>
    /\ asterisk_line_idx = 0
    /\ res = <<>>
    /\ accepted = <<>>

\* Line 260, the coordinates parse.
ScanOk ==
    /\ pc = "start"
    /\ LET r == parse_coordinates_asterisk_lines(data)
       IN  /\ ~r.raised
           /\ x' = Some(r.x)
           /\ y' = Some(r.y)
           /\ z' = Some(r.z)
           /\ asterisk_lines' = r.asterisk_lines
    /\ pc' = "loop"
    /\ UNCHANGED <<data, exc, asterisk_line_idx, res, accepted>>

\* Line 260, float() or data[i] raises.
ScanRaises ==
    /\ pc = "start"
    /\ LET r == parse_coordinates_asterisk_lines(data)
       IN  r.raised /\ exc' = Some(r.exc)
    /\ pc' = "raised"
    /\ UNCHANGED <<data, x, y, z, asterisk_lines, asterisk_line_idx, res, accepted>>

InLoop == pc = "loop" /\ asterisk_line_idx < Len(asterisk_lines)

\* The loop variable `asterisk` of line 275.
ThisAsterisk == At(asterisk_lines, asterisk_line_idx)

\* Lines 279-283: continue.
BlockSkipped ==
    /\ InLoop
    /\ ~BlockAccepted(data, ThisAsterisk)
    /\ asterisk_line_idx' = asterisk_line_idx + 1
    /\ UNCHANGED <<data, pc, exc, x, y, z, asterisk_lines, res, accepted>>

\* The dictionary of lines 289-307.
Record(h, b) ==
    [method_code |-> h.method_code,
     method_name |-> h.method_name,
     day |-> h.day,
     month |-> h.month,
     year |-> h.year,
     date |-> h.date,
     stop_code |-> h.stop_code,
     stop_desc |-> h.stop_desc,
     depth_increment |-> b.depth_increment,
     depth_bedrock |-> b.depth_bedrock,
     x_coordinate |-> x,
     y_coordinate |-> y,
     z_coordinate |-> z,
     df_data |-> b.df_data]

\* Lines 286-307: the block is parsed and its record appended.
BlockAppended ==
    /\ InLoop
    /\ BlockAccepted(data, ThisAsterisk)
    /\ LET h == parse_header_information(data, ThisAsterisk)
       IN  /\ ~h.raised
           /\ ~LineEndMissing(asterisk_lines, asterisk_line_idx)
           /\ res' = Append(res, Record(h,
                         parse_borehole_data(data, h.method_code[1], asterisk_lines,
                                             asterisk_line_idx)))
    /\ accepted' = Append(accepted, asterisk_line_idx)
    /\ asterisk_line_idx' = asterisk_line_idx + 1
    /\ UNCHANGED <<data, pc, exc, x, y, z, asterisk_lines>>

\* Line 286: parse_header_information returns an unbound method_code.
HeaderRaises ==
    /\ InLoop
    /\ BlockAccepted(data, ThisAsterisk)
    /\ LET h == parse_header_information(data, ThisAsterisk)
       IN  h.raised /\ exc' = Some(h.exc)
    /\ pc' = "raised"
    /\ accepted' = Append(accepted, asterisk_line_idx)
    /\ UNCHANGED <<data, x, y, z, asterisk_lines, asterisk_line_idx, res>>

\* Line 287: parse_borehole_data indexes past the last marker.
BoreholeRaises ==
    /\ InLoop
    /\ BlockAccepted(data, ThisAsterisk)
    /\ ~parse_header_information(data, ThisAsterisk).raised
    /\ LineEndMissing(asterisk_lines, asterisk_line_idx)
    /\ exc' = Some("IndexError")
    /\ pc' = "raised"
    /\ accepted' = Append(accepted, asterisk_line_idx)
    /\ UNCHANGED <<data, x, y, z, asterisk_lines, asterisk_line_idx, res>>

\* Line 309.
Return ==
    /\ pc = "loop"
    /\ asterisk_line_idx = Len(asterisk_lines)
    /\ pc' = "returned"
    /\ UNCHANGED <<data, exc, x, y, z, asterisk_lines, asterisk_line_idx, res, accepted>>

Next ==
    \/ ScanOk
    \/ ScanRaises
    \/ BlockSkipped
    \/ BlockAppended
    \/ HeaderRaises
    \/ BoreholeRaises
    \/ Return

Spec == Init /\ [][Next]_vars

(***************************************************************************)
(* What the claims speak of: the blocks of the file behind the records,    *)
(* and the flag table (token -> flags, value) the scan realises.           *)
(***************************************************************************)
Records == 1..Len(res)

\* The data lines of the block behind record k: from marker + 3 to the next marker.
RowsOf(k) ==
    Slice(data, At(asterisk_lines, accepted[k]) + 3,
          At(asterisk_lines, accepted[k] + 1))

\* n: the least token count over the rows.
NumericCount(rows) ==
    IF rows = <<>> THEN 0
    ELSE CHOOSE m \in {Len(rows[r]) : r \in 1..Len(rows)} :
             \A r \in 1..Len(rows) : m <= Len(rows[r])

\* The tail tokens of row r: those at index >= n.
TailOf(rows, r) == SubSeq(rows[r], NumericCount(rows) + 1, Len(rows[r]))

AllNumeric(rows) ==
    \A r \in 1..Len(rows) : \A i \in 1..NumericCount(rows) : IsFloat(rows[r][i])

FlagColumns == {"flushing", "extra_spin", "ramming", "pumping"}

FlagTable ==
    [tok \in {"R1", "R2", "y1", "y2", "S1", "S2", "D1", "D2", "P1", "P2",
              "70", "71", "72", "73", "74", "75", "76", "77", "78", "79"} |->
        [flags |-> CASE tok \in {"R1", "R2", "70", "71"} -> {"extra_spin"}
                     [] tok \in {"y1", "y2", "72", "73"} -> {"flushing"}
                     [] tok \in {"S1", "S2", "74", "75"} -> {"ramming"}
                     [] tok \in {"D1", "D2", "76", "77"} -> {"ramming", "flushing"}
                     [] OTHER -> {"pumping"},
         value |-> IF tok \in {"R1", "y1", "S1", "D1", "P1", "70", "72", "74", "76", "78"}
                   THEN 1 ELSE 0]]

BedrockTokens == {"F", "43"}

IsToggle(tok, flag) == tok \in DOMAIN FlagTable /\ flag \in FlagTable[tok].flags

\* The value of the last toggle token for `flag` in `tokens`, 0 if there is none.
LastToggle(tokens, flag) ==
    LET at == {j \in 1..Len(tokens) : IsToggle(tokens[j], flag)}
        last == CHOOSE j \in at : \A i \in at : i <= j
    IN  IF at = {} THEN 0 ELSE FlagTable[tokens[last]].value

\* The tails of rows 1..r, one after the other.
RECURSIVE TailsUpTo(_, _)
TailsUpTo(rows, r) ==
    IF r = 0 THEN <<>> ELSE TailsUpTo(rows, r - 1) \o TailOf(rows, r)

HasFlagColumns(df) == \E f \in FlagColumns \cup {"comments"} : HasColumn(df, f)

HasBedrockToken(rows, r) == \E j \in 1..Len(TailOf(rows, r)) : TailOf(rows, r)[j] \in BedrockTokens

\* The first row whose tail holds a bedrock token, 0 if there is none.
FirstBedrockRow(rows) ==
    IF \E r \in 1..Len(rows) : HasBedrockToken(rows, r)
    THEN CHOOSE r \in 1..Len(rows) :
             HasBedrockToken(rows, r) /\ \A q \in 1..(r - 1) : ~HasBedrockToken(rows, q)
    ELSE 0

\* The flag scan runs on the block behind record k.
ScanRuns(k) ==
    /\ res[k].method_code \in {<<23>>, <<25>>}
    /\ Len(RowsOf(k)) >= 2
    /\ NumericCount(RowsOf(k)) >= 1
    /\ AllNumeric(RowsOf(k))

CoordinatesParse == Len(data) >= 3 /\ \A i \in 0..2 : LineIsFloat(At(data, i))

Terminated == pc \in {"returned", "raised"}

(***************************************************************************)
(* The claims.                                                             *)
(***************************************************************************)

\* C1: for every line sequence whose first three lines parse as numbers,
\* parse() returns a list and never raises.
C1_ParseNeverRaises == CoordinatesParse => pc # "raised"

\* C2: a marker's block is accepted if and only if the first token of the line
\* two positions after the marker parses as a number v with |v - 1.0| <= 1e-4;
\* a rejected block yields no record and scanning goes on.
C2_AcceptedIffNearOne ==
    /\ \A i \in 0..(asterisk_line_idx - 1) :
           (\E k \in 1..Len(accepted) : accepted[k] = i)
           <=> LET a == At(asterisk_lines, i)
                   tok == At(data, a + 2)[1]
               IN  /\ a + 2 < Len(data)
                   /\ Len(At(data, a + 2)) >= 1
                   /\ IsFloat(tok)
                   /\ FloatOf(tok) - 100000 <= Tolerance
                   /\ 100000 - FloatOf(tok) <= Tolerance
    /\ pc \in {"loop", "returned"} => Len(res) = Len(accepted)

\* C3: the list parse() ends with holds exactly one record per marker that
\* passed the block check, in marker order (4 records for 4 accepted blocks),
\* a block whose header or column decode failed included.
C3_OneRecordPerAcceptedMarker ==
    Terminated =>
        /\ Len(res) = Cardinality({i \in 0..(Len(asterisk_lines) - 1) :
                                      BlockAccepted(data, At(asterisk_lines, i))})
        /\ \A k \in Records : \A j \in Records : k < j => accepted[k] < accepted[j]

\* C4: the value recorded for a flag at row r is the value set by the most
\* recent toggle token for that flag at or before row r in the same block,
\* and 0 if there is none.
C4_FlagForwardFill ==
    \A k \in Records : HasFlagColumns(res[k].df_data) =>
        \A f \in FlagColumns : \A r \in 1..Len(RowsOf(k)) :
            Column(res[k].df_data, f)[r] = LastToggle(TailsUpTo(RowsOf(k), r), f)

\* C5 as stated: for every accepted block depth_bedrock is the depth of the
\* first row whose tail holds 'F' or '43', and null when no row does.
C5_BedrockEveryBlock ==
    \A k \in Records :
        LET rows == RowsOf(k)
            first == FirstBedrockRow(rows)
        IN  IF first = 0 THEN res[k].depth_bedrock = None
            ELSE IF Len(rows[first]) >= 1 /\ IsFloat(rows[first][1])
            THEN res[k].depth_bedrock = Some(FloatOf(rows[first][1]))
            ELSE res[k].depth_bedrock # None

\* C5 amended: on a block the flag scan runs on, depth_bedrock is the depth of
\* the first row whose tail holds 'F' or '43', whatever follows, and null when
\* no row does; on every other accepted block it is null.
C5_BedrockFirstRow ==
    \A k \in Records :
        LET rows == RowsOf(k)
            first == FirstBedrockRow(rows)
        IN  IF ScanRuns(k) /\ first # 0
            THEN res[k].depth_bedrock = Some(FloatOf(rows[first][1]))
            ELSE res[k].depth_bedrock = None

\* C5 witness: a scanned block with bedrock tokens in two rows, the first
\* row's depth recorded.
C5_Witness ==
    \E k \in Records :
        /\ ScanRuns(k)
        /\ \E r \in 1..Len(RowsOf(k)) : \E q \in 1..Len(RowsOf(k)) :
               /\ r < q
               /\ HasBedrockToken(RowsOf(k), r)
               /\ HasBedrockToken(RowsOf(k), q)
               /\ FirstBedrockRow(RowsOf(k)) = r
               /\ res[k].depth_bedrock = Some(FloatOf(RowsOf(k)[r][1]))
               /\ res[k].depth_bedrock # Some(FloatOf(RowsOf(k)[q][1]))

\* C6: when several toggle tokens for one flag stand in one row's tail, they
\* apply left to right and the last one gives the value recorded for the row.
C6_LastTokenWins ==
    \A k \in Records : HasFlagColumns(res[k].df_data) =>
        \A f \in FlagColumns : \A r \in 1..Len(RowsOf(k)) :
            (\E j \in 1..Len(TailOf(RowsOf(k), r)) : IsToggle(TailOf(RowsOf(k), r)[j], f))
            => Column(res[k].df_data, f)[r] = LastToggle(TailOf(RowsOf(k), r), f)

\* C7: a row's comments are its tail tokens that match no flag-table token,
\* in their order, joined by one space.
C7_CommentsAreUnmatchedTokens ==
    \A k \in Records : HasFlagColumns(res[k].df_data) =>
        \A r \in 1..Len(RowsOf(k)) :
            Column(res[k].df_data, "comments")[r] =
                Join(SelectSeq(TailOf(RowsOf(k), r),
                               LAMBDA tok : tok \notin DOMAIN FlagTable
                                            /\ tok \notin BedrockTokens))

\* C8: decoding the method code never raises; a code absent from the method
\* table gives a fallback method_name (not null) and an empty data table.
C8_MethodCodeNeverRaises ==
    /\ exc # Some("UnboundLocalError")
    /\ \A k \in Records :
           res[k].method_code # None /\ res[k].method_code[1] \notin DOMAIN method_by_code
           => res[k].method_name # None /\ res[k].df_data = <<>>

\* C9: when a token among the first n of a row is no number, or the method
\* has no column layout, the block's data table is empty.
C9_FailedDecodeLeavesEmptyTable ==
    \A k \in Records :
        (~AllNumeric(RowsOf(k)) \/ res[k].method_code[1] \notin DOMAIN snd_columns_by_method)
        => res[k].df_data = <<>>

\* The numeric columns of rows whose first n tokens all parse.
NumericColumns(rows) ==
    [i \in 1..NumericCount(rows) |-> [r \in 1..Len(rows) |-> FloatOf(rows[r][i])]]

KeepsNumericOnly(k) ==
    /\ ~HasFlagColumns(res[k].df_data)
    /\ res[k].depth_bedrock = None
    /\ (AllNumeric(RowsOf(k)) /\ res[k].method_code[1] \in DOMAIN snd_columns_by_method)
       => [i \in 1..Len(res[k].df_data) |-> res[k].df_data[i].vals]
          = NumericColumns(RowsOf(k))

\* C10 as stated: flag and comments columns exist, and depth_bedrock can be
\* non-null, iff the method code is 23 or 25, every numeric column decoded and
\* the block has at least two rows.
C10_GateAsStated ==
    \A k \in Records :
        HasFlagColumns(res[k].df_data)
        <=> /\ res[k].method_code \in {<<23>>, <<25>>}
            /\ AllNumeric(RowsOf(k))
            /\ Len(RowsOf(k)) >= 2

\* C10 amended: the same with "every row has at least one token" added to the
\* condition; for method codes 7 and 26 and for one-row blocks the numeric
\* columns are kept, there is no flag or comments column, and depth_bedrock
\* is null.
C10_FlagScanGate ==
    \A k \in Records :
        /\ HasFlagColumns(res[k].df_data) <=> ScanRuns(k)
        /\ HasFlagColumns(res[k].df_data) =>
               \A f \in FlagColumns \cup {"comments"} : HasColumn(res[k].df_data, f)
        /\ res[k].depth_bedrock # None => ScanRuns(k)
        /\ (res[k].method_code \in {<<7>>, <<26>>} \/ Len(RowsOf(k)) = 1)
           => KeepsNumericOnly(k)

\* C10 witness: a scanned block with its flag columns and a bedrock depth,
\* beside a method-7 block with a bedrock token in a tail and neither.
C10_Witness ==
    /\ \E k \in Records :
           /\ ScanRuns(k)
           /\ HasColumn(res[k].df_data, "comments")
           /\ res[k].depth_bedrock # None
    /\ \E k \in Records :
           /\ res[k].method_code = <<7>>
           /\ FirstBedrockRow(RowsOf(k)) # 0
           /\ Len(res[k].df_data) = 2
           /\ res[k].depth_bedrock = None

=============================================================================
